---- MODULE Spec2Model ----
(***************************************************************************)
(* Model of transmission_pause.py: one synchronous sweep over the torrents *)
(* of a Transmission daemon that stops every seeding torrent with more     *)
(* than MAX_SEEDERS seeders on some tracker, or with no leecher on any     *)
(* tracker.  The script is a straight-line module body; the model gives    *)
(* one action per statement that prints, talks to the daemon or changes    *)
(* the counter, and keeps the daemon's own state (remote) apart from the   *)
(* snapshot the script fetched (torrents).                                 *)
(***************************************************************************)
EXTENDS Integers, Sequences, FiniteSets, TLC

VARIABLES
    remote,       \* the daemon's torrents: sequence of [name, status, trackerStats]
    conn,         \* the Client c: "none", "held" or "released"
    connects,     \* how many times this process constructed a Client
    exited,       \* <<>> while the process runs, <<code>> once it has exited
    pc,           \* the line the process is about to execute
    torrents,     \* the snapshot returned by c.get_torrents()
    i,            \* position of the for loop in torrents (t = torrents[i])
    name,         \* local name
    seeders,      \* local seeders
    has_peers,    \* local has_peers
    pausedCount,  \* global pausedCount
    out,          \* lines written to standard output by this process
    outFor,       \* for each line of out, the torrent it is about (0: none)
    stops,        \* stop commands sent by this process: [t, branch, ok]
    run,          \* number of the current invocation of the script
    history       \* for each earlier invocation, the torrents it stopped

vars == << remote, conn, connects, exited, pc, torrents, i, name, seeders,
           has_peers, pausedCount, out, outFor, stops, run, history >>

----------------------------------------------------------------------------
(* Bounds of the model *)

MaxTransfers == 2
MaxRuns == 2

(* Program constant *)

MAX_SEEDERS == 5

----------------------------------------------------------------------------
(* Inputs: what the daemon may hold when the script starts *)

TS(s, l) == [seederCount |-> s, leecherCount |-> l]

StatsCases ==
    { << >>,
      << TS(3, 2) >>,
      << TS(6, 1) >>,
      << TS(10, 0) >>,
      << TS(5, 1) >>,
      << TS(3, 1), TS(3, 0) >>,
      << TS(3, 0), TS(6, 1) >>,
      << TS(6, 0), TS(3, 1) >>,
      << TS(0, 0), TS(5, 0) >>,
      << TS(2, 0), TS(2, 0), TS(2, 1) >> }

Statuses == { "seeding", "downloading", "stopped" }

----------------------------------------------------------------------------
(* Text formatting *)

Digit(d) ==
    CASE d = 0 -> "0" [] d = 1 -> "1" [] d = 2 -> "2" [] d = 3 -> "3"
      [] d = 4 -> "4" [] d = 5 -> "5" [] d = 6 -> "6" [] d = 7 -> "7"
      [] d = 8 -> "8" [] d = 9 -> "9"

RECURSIVE Dec(_)
Dec(n) == IF n < 10 THEN Digit(n) ELSE Dec(n \div 10) \o Digit(n % 10)

RECURSIVE ZeroFill(_, _)
ZeroFill(s, width) == IF Len(s) >= width THEN s ELSE ZeroFill("0" \o s, width)

Format03(n) == ZeroFill(Dec(n), 3)

HeaderLine == "Pausing all with >" \o Dec(MAX_SEEDERS) \o " seeders or no leechers"

SeedersLine(n, nm) == "[" \o Format03(n) \o "] " \o nm

NopLine(nm) == "[nop] " \o nm

SummaryLine(n) == "Paused " \o Dec(n)

NameOf(k) == "torrent" \o Dec(k)

Bodies == [status : Statuses, trackerStats : StatsCases]

TransferLists ==
    UNION { { [k \in 1..n |-> [name |-> NameOf(k),
                               status |-> b[k].status,
                               trackerStats |-> b[k].trackerStats]] :
                b \in [1..n -> Bodies] } : n \in 0..MaxTransfers }

----------------------------------------------------------------------------
(* The policy, as the script computes it *)

RECURSIVE MaxOf(_, _)
MaxOf(stats, default) ==
    IF stats = << >> THEN default
    ELSE LET rest == MaxOf(Tail(stats), Head(stats).seederCount)
         IN  IF Head(stats).seederCount > rest THEN Head(stats).seederCount ELSE rest

MaxSeeders(stats) == MaxOf(stats, 0)

(* Variant of line 16 with >= *)
SeederTriggersAtLeast(n) == n >= MAX_SEEDERS

SeederTriggers(n) == n > MAX_SEEDERS

(* Variants of line 21: only the first tracker is asked; all() for any() *)
HasPeersFirst(stats) == stats /= << >> /\ stats[1].leecherCount > 0

HasPeersAll(stats) == \A k \in 1..Len(stats) : stats[k].leecherCount > 0

HasPeers(stats) == \E k \in 1..Len(stats) : stats[k].leecherCount > 0

(* Variants of line 12: no status guard; a guard that only skips downloads *)
IsAnyStatus(t) == t.status \in Statuses

IsNotDownloading(t) == t.status /= "downloading"

IsSeeding(t) == t.status = "seeding"

----------------------------------------------------------------------------
(* The process *)

Fresh ==
    /\ conn = "none"
    /\ connects = 0
    /\ exited = << >>
    /\ pc = "l6"
    /\ torrents = << >>
    /\ i = 0
    /\ name = ""
    /\ seeders = 0
    /\ has_peers = FALSE
    /\ pausedCount = 0
    /\ out = << >>
    /\ outFor = << >>
    /\ stops = << >>

Init ==
    /\ remote \in TransferLists
    /\ Fresh
    /\ run = 1
    /\ history = << >>

Emit(line, k) ==
    /\ out' = Append(out, line)
    /\ outFor' = Append(outFor, k)

(* An exception nothing catches: the interpreter exits with status 1 and the
   process's connection, if it has one, goes with it. *)
Raise ==
    /\ pc' = "failed"
    /\ exited' = << 1 >>
    /\ conn' = IF conn = "held" THEN "released" ELSE conn

(* The daemon carries out a stop command for its torrent k. *)
Stopped(k) == [remote EXCEPT ![k].status = "stopped"]

(* Line 6 *)
PrintHeader ==
    /\ pc = "l6"
    /\ Emit(HeaderLine, 0)
    /\ pc' = "l7"
    /\ UNCHANGED << remote, conn, connects, exited, torrents, i, name, seeders,
                    has_peers, pausedCount, stops, run, history >>

(* Line 7, the daemon answers *)
Connect ==
    /\ pc = "l7"
    /\ conn' = "held"
    /\ connects' = connects + 1
    /\ pc' = "l8"
    /\ UNCHANGED << remote, exited, torrents, i, name, seeders, has_peers,
                    pausedCount, out, outFor, stops, run, history >>

(* Line 7, the daemon cannot be reached *)
ConnectFail ==
    /\ pc = "l7"
    /\ Raise
    /\ UNCHANGED << remote, connects, torrents, i, name, seeders, has_peers,
                    pausedCount, out, outFor, stops, run, history >>

(* Line 8 *)
GetTorrents ==
    /\ pc = "l8"
    /\ torrents' = remote
    /\ pc' = "l9"
    /\ UNCHANGED << remote, conn, connects, exited, i, name, seeders, has_peers,
                    pausedCount, out, outFor, stops, run, history >>

(* Variant of line 8 failing: go back and make a new Client *)
GetTorrentsRetry ==
    /\ pc = "l8"
    /\ pc' = "l7"
    /\ UNCHANGED << remote, conn, connects, exited, torrents, i, name, seeders,
                    has_peers, pausedCount, out, outFor, stops, run, history >>

(* Line 8, the request fails *)
GetTorrentsFail ==
    /\ pc = "l8"
    /\ Raise
    /\ UNCHANGED << remote, connects, torrents, i, name, seeders, has_peers,
                    pausedCount, out, outFor, stops, run, history >>

(* Line 9 *)
InitCount ==
    /\ pc = "l9"
    /\ pausedCount' = 0
    /\ pc' = "l11"
    /\ UNCHANGED << remote, conn, connects, exited, torrents, i, name, seeders,
                    has_peers, out, outFor, stops, run, history >>

(* Lines 11-12: the next torrent of the snapshot, and the status guard *)
LoopNext ==
    /\ pc = "l11"
    /\ i < Len(torrents)
    /\ i' = i + 1
    /\ pc' = IF IsSeeding(torrents[i + 1]) THEN "l13" ELSE "l11"
    /\ UNCHANGED << remote, conn, connects, exited, torrents, name, seeders,
                    has_peers, pausedCount, out, outFor, stops, run, history >>

(* Line 11: the snapshot is exhausted *)
LoopEnd ==
    /\ pc = "l11"
    /\ i >= Len(torrents)
    /\ pc' = "l27"
    /\ UNCHANGED << remote, conn, connects, exited, torrents, i, name, seeders,
                    has_peers, pausedCount, out, outFor, stops, run, history >>

(* Lines 13-16 *)
SeederCheck ==
    /\ pc = "l13"
    /\ name' = torrents[i].name
    /\ seeders' = MaxSeeders(torrents[i].trackerStats)
    /\ pc' = IF SeederTriggers(seeders') THEN "l17" ELSE "l21"
    /\ UNCHANGED << remote, conn, connects, exited, torrents, i, has_peers,
                    pausedCount, out, outFor, stops, run, history >>

(* Line 17 *)
PrintSeeders ==
    /\ pc = "l17"
    /\ Emit(SeedersLine(seeders, name), i)
    /\ pc' = "l18"
    /\ UNCHANGED << remote, conn, connects, exited, torrents, i, name, seeders,
                    has_peers, pausedCount, stops, run, history >>

(* Line 18, the daemon accepts *)
StopSeeders ==
    /\ pc = "l18"
    /\ stops' = Append(stops, [t |-> i, branch |-> "seeders", ok |-> TRUE])
    /\ remote' = Stopped(i)
    /\ pc' = "l19"
    /\ UNCHANGED << conn, connects, exited, torrents, i, name, seeders, has_peers,
                    pausedCount, out, outFor, run, history >>

(* Variant of lines 18-19 with the count taken before the stop command *)
StopSeedersFailCounted ==
    /\ pc = "l18"
    /\ stops' = Append(stops, [t |-> i, branch |-> "seeders", ok |-> FALSE])
    /\ pausedCount' = pausedCount + 1
    /\ Raise
    /\ UNCHANGED << remote, connects, torrents, i, name, seeders, has_peers,
                    out, outFor, run, history >>

(* Line 18, the daemon rejects *)
StopSeedersFail ==
    /\ pc = "l18"
    /\ stops' = Append(stops, [t |-> i, branch |-> "seeders", ok |-> FALSE])
    /\ Raise
    /\ UNCHANGED << remote, connects, torrents, i, name, seeders, has_peers,
                    pausedCount, out, outFor, run, history >>

(* Variant of line 22 as an elif of line 16 *)
SkipPeerCheck == "l11"

AfterSeederBranch == "l21"

(* Line 19 *)
CountSeeders ==
    /\ pc = "l19"
    /\ pausedCount' = pausedCount + 1
    /\ pc' = AfterSeederBranch
    /\ UNCHANGED << remote, conn, connects, exited, torrents, i, name, seeders,
                    has_peers, out, outFor, stops, run, history >>

(* Lines 21-22 *)
PeerCheck ==
    /\ pc = "l21"
    /\ has_peers' = HasPeers(torrents[i].trackerStats)
    /\ pc' = IF ~has_peers' THEN "l23" ELSE "l11"
    /\ UNCHANGED << remote, conn, connects, exited, torrents, i, name, seeders,
                    pausedCount, out, outFor, stops, run, history >>

(* Line 23 *)
PrintNop ==
    /\ pc = "l23"
    /\ Emit(NopLine(name), i)
    /\ pc' = "l24"
    /\ UNCHANGED << remote, conn, connects, exited, torrents, i, name, seeders,
                    has_peers, pausedCount, stops, run, history >>

(* Line 24, the daemon accepts *)
StopNop ==
    /\ pc = "l24"
    /\ stops' = Append(stops, [t |-> i, branch |-> "nop", ok |-> TRUE])
    /\ remote' = Stopped(i)
    /\ pc' = "l25"
    /\ UNCHANGED << conn, connects, exited, torrents, i, name, seeders, has_peers,
                    pausedCount, out, outFor, run, history >>

(* Variant of line 24 inside a try/except that carries on with the loop *)
StopNopFailSwallowed ==
    /\ pc = "l24"
    /\ stops' = Append(stops, [t |-> i, branch |-> "nop", ok |-> FALSE])
    /\ pc' = "l11"
    /\ UNCHANGED << remote, conn, connects, exited, torrents, i, name, seeders,
                    has_peers, pausedCount, out, outFor, run, history >>

(* Line 24, the daemon rejects *)
StopNopFail ==
    /\ pc = "l24"
    /\ stops' = Append(stops, [t |-> i, branch |-> "nop", ok |-> FALSE])
    /\ Raise
    /\ UNCHANGED << remote, connects, torrents, i, name, seeders, has_peers,
                    pausedCount, out, outFor, run, history >>

(* Variant of the no-peers branch without line 25 *)
CountNopLost ==
    /\ pc = "l25"
    /\ pc' = "l11"
    /\ UNCHANGED << remote, conn, connects, exited, torrents, i, name, seeders,
                    has_peers, pausedCount, out, outFor, stops, run, history >>

(* Line 25 *)
CountNop ==
    /\ pc = "l25"
    /\ pausedCount' = pausedCount + 1
    /\ pc' = "l11"
    /\ UNCHANGED << remote, conn, connects, exited, torrents, i, name, seeders,
                    has_peers, out, outFor, stops, run, history >>

(* Line 27 and the end of the module: the interpreter exits with status 0 *)
PrintSummary ==
    /\ pc = "l27"
    /\ Emit(SummaryLine(pausedCount), 0)
    /\ pc' = "done"
    /\ exited' = << 0 >>
    /\ conn' = "released"
    /\ UNCHANGED << remote, connects, torrents, i, name, seeders, has_peers,
                    pausedCount, stops, run, history >>

Next ==
    \/ PrintHeader
    \/ Connect
    \/ ConnectFail
    \/ GetTorrents
    \/ GetTorrentsFail
    \/ InitCount
    \/ LoopNext
    \/ LoopEnd
    \/ SeederCheck
    \/ PrintSeeders
    \/ StopSeeders
    \/ StopSeedersFail
    \/ CountSeeders
    \/ PeerCheck
    \/ PrintNop
    \/ StopNop
    \/ StopNopFail
    \/ CountNop
    \/ PrintSummary

Spec == Init /\ [][Next]_vars

(* The script is run again (by hand or by cron) after a sweep that completed:
   a new process, with nothing of the old one but what the daemon holds. *)
Rerun ==
    /\ pc = "done"
    /\ run < MaxRuns
    /\ run' = run + 1
    /\ history' = Append(history, [stopped |-> { stops[n].t : n \in 1..Len(stops) },
                                   count |-> pausedCount])
    /\ conn' = "none"
    /\ connects' = 0
    /\ exited' = << >>
    /\ pc' = "l6"
    /\ torrents' = << >>
    /\ i' = 0
    /\ name' = ""
    /\ seeders' = 0
    /\ has_peers' = FALSE
    /\ pausedCount' = 0
    /\ out' = << >>
    /\ outFor' = << >>
    /\ stops' = << >>
    /\ UNCHANGED remote

NextRerun ==
    \/ Next
    \/ Rerun

SpecRerun == Init /\ [][NextRerun]_vars
----------------------------------------------------------------------------
(* What the claims speak of, stated from the snapshot alone *)

Stats(k) == torrents[k].trackerStats

Seeding(k) == torrents[k].status = "seeding"

Above(k) == \E j \in 1..Len(Stats(k)) : Stats(k)[j].seederCount > MAX_SEEDERS

NoLeecher(k) == \A j \in 1..Len(Stats(k)) : Stats(k)[j].leecherCount <= 0

TopSeeders(k) ==
    CHOOSE m \in { Stats(k)[j].seederCount : j \in 1..Len(Stats(k)) } :
        \A j \in 1..Len(Stats(k)) : Stats(k)[j].seederCount <= m

StopsOf(k) == LET About(s) == s.t = k IN SelectSeq(stops, About)

BranchStopsOf(k, b) == LET About(s) == s.t = k /\ s.branch = b IN SelectSeq(stops, About)

RECURSIVE Pick(_, _, _)
Pick(lines, tags, k) ==
    IF lines = << >> THEN << >>
    ELSE (IF Head(tags) = k THEN << Head(lines) >> ELSE << >>)
             \o Pick(Tail(lines), Tail(tags), k)

LinesOf(k) == Pick(out, outFor, k)

ActionLines == { n \in 1..Len(out) : outFor[n] /= 0 }

OkStops == { n \in 1..Len(stops) : stops[n].ok }

(* The loop is through with torrent k of the snapshot. *)
Finished(k) == i > k \/ (i = k /\ pc \in { "l11", "l27", "done" })

Triggers(k) ==
    IF Seeding(k)
    THEN (IF Above(k) THEN 1 ELSE 0) + (IF NoLeecher(k) THEN 1 ELSE 0)
    ELSE 0

RECURSIVE Expected(_)
Expected(k) == IF k = 0 THEN 0 ELSE Expected(k - 1) + Triggers(k)

Sent(k, b) == [t |-> k, branch |-> b, ok |-> TRUE]

----------------------------------------------------------------------------
(* C1: a torrent whose status is not "seeding" gets no stop command and no
   log line, whatever its tracker stats, and the counter never counts more
   than the stop commands accepted for seeding torrents. *)
C1_NonSeedingUntouched ==
    /\ \A k \in 1..Len(torrents) :
          ~Seeding(k) => StopsOf(k) = << >> /\ LinesOf(k) = << >>
    /\ pausedCount <= Cardinality({ n \in OkStops : Seeding(stops[n].t) })
    /\ (pc = "l11" /\ i >= 1 /\ ~Seeding(i)) => pausedCount = Expected(i - 1)

C1_Witness ==
    /\ pc = "done"
    /\ Len(torrents) = 2
    /\ torrents[1].status = "downloading" /\ Stats(1) = << TS(10, 0) >>
    /\ torrents[2].status = "stopped" /\ Stats(2) = << >>
    /\ out = << HeaderLine, "Paused 0" >>

(* C2: when the sweep completes, the count of the summary line is the sum
   over the seeding torrents of the conditions that hold for each (0, 1 or
   2), and that is the number of stop commands sent. *)
C2_SummaryCount ==
    pc = "done" =>
        /\ pausedCount = Expected(Len(torrents))
        /\ out[Len(out)] = "Paused " \o Dec(Expected(Len(torrents)))
        /\ Len(stops) = Expected(Len(torrents))
        /\ \A n \in 1..Len(stops) : stops[n].ok

C2_Witness ==
    /\ pc = "done"
    /\ out[Len(out)] = "Paused 3"
    /\ Len(stops) = 3
    /\ \E k \in 1..Len(torrents) : Triggers(k) = 2

(* C3: for a seeding torrent the seeder branch is taken exactly when some
   tracker reports more than MAX_SEEDERS seeders, that is when the maximum,
   not the sum, is strictly above the threshold; the line shows the maximum
   zero-filled to three digits. *)
C3_SeederCondition ==
    \A k \in 1..Len(torrents) :
        Seeding(k) =>
            /\ ~Above(k) =>
                  /\ BranchStopsOf(k, "seeders") = << >>
                  /\ \A n \in 1..Len(LinesOf(k)) : LinesOf(k)[n] = "[nop] " \o torrents[k].name
            /\ (Above(k) /\ Finished(k)) =>
                  /\ BranchStopsOf(k, "seeders") = << Sent(k, "seeders") >>
                  /\ Head(LinesOf(k)) = SeedersLine(TopSeeders(k), torrents[k].name)
            /\ Stats(k) \in { << TS(3, 2) >>, << TS(5, 1) >> } =>
                  StopsOf(k) = << >> /\ LinesOf(k) = << >>
            /\ (Stats(k) = << TS(6, 1) >> /\ Finished(k)) =>
                  /\ StopsOf(k) = << Sent(k, "seeders") >>
                  /\ LinesOf(k) = << "[006] " \o torrents[k].name >>
            /\ (Stats(k) = << TS(6, 1) >> /\ pc = "l11" /\ i = k) =>
                  pausedCount = Expected(k - 1) + 1

C3_Witness ==
    /\ pc = "done"
    /\ Len(torrents) = 2
    /\ Seeding(1) /\ Stats(1) = << TS(6, 1) >>
    /\ Seeding(2) /\ Stats(2) = << TS(5, 1) >>
    /\ out = << HeaderLine, "[006] torrent1", "Paused 1" >>
    /\ stops = << Sent(1, "seeders") >>

(* C4: for a seeding torrent the no-peers branch is taken exactly when no
   tracker reports a leecher, whether or not the seeder branch was taken. *)
C4_NoPeersCondition ==
    \A k \in 1..Len(torrents) :
        Seeding(k) =>
            /\ ~NoLeecher(k) =>
                  /\ BranchStopsOf(k, "nop") = << >>
                  /\ \A n \in 1..Len(LinesOf(k)) : LinesOf(k)[n] /= "[nop] " \o torrents[k].name
            /\ (NoLeecher(k) /\ Finished(k)) =>
                  /\ BranchStopsOf(k, "nop") = << Sent(k, "nop") >>
                  /\ LinesOf(k)[Len(LinesOf(k))] = "[nop] " \o torrents[k].name

C4_Witness ==
    /\ pc = "done"
    /\ Len(torrents) = 2
    /\ Seeding(1) /\ Stats(1) = << TS(3, 0), TS(6, 1) >>
    /\ Seeding(2) /\ Stats(2) = << TS(10, 0) >>
    /\ stops = << Sent(1, "seeders"), Sent(2, "seeders"), Sent(2, "nop") >>

(* C5: a seeding torrent with the maximum above the threshold and no leecher
   gets two stop commands, the seeder one first, two lines in that order and
   two counts; the second stop is sent on the snapshot's word although the
   daemon has already stopped the torrent. *)
C5_BothConditions ==
    \A k \in 1..Len(torrents) :
        (Seeding(k) /\ Above(k) /\ NoLeecher(k)) =>
            /\ Len(StopsOf(k)) <= 2
            /\ Finished(k) =>
                  /\ StopsOf(k) = << Sent(k, "seeders"), Sent(k, "nop") >>
                  /\ LinesOf(k) = << "[" \o Format03(TopSeeders(k)) \o "] " \o torrents[k].name,
                                     "[nop] " \o torrents[k].name >>
            /\ (Finished(k) /\ Stats(k) = << TS(10, 0) >>) =>
                  LinesOf(k) = << "[010] " \o torrents[k].name, "[nop] " \o torrents[k].name >>
            /\ (pc = "l11" /\ i = k) => pausedCount = Expected(k - 1) + 2
            /\ (pc = "l24" /\ i = k) => remote[k].status = "stopped"

C5_Witness ==
    /\ pc = "done"
    /\ Len(torrents) = 1
    /\ Seeding(1) /\ Stats(1) = << TS(10, 0) >>
    /\ stops = << Sent(1, "seeders"), Sent(1, "nop") >>
    /\ out = << HeaderLine, "[010] torrent1", "[nop] torrent1", "Paused 2" >>

(* C6: a seeding torrent with no tracker stats has aggregate 0, which no
   threshold from 0 up is below, and no peers: it gets the no-peers stop and
   nothing else, one "[nop]" line and one count, and ends up stopped. *)
C6_EmptyStats ==
    \A k \in 1..Len(torrents) :
        (Seeding(k) /\ Stats(k) = << >>) =>
            /\ BranchStopsOf(k, "seeders") = << >>
            /\ Len(StopsOf(k)) <= 1
            /\ (i = k /\ pc \in { "l21", "l23", "l24", "l25" }) =>
                  seeders = 0 /\ \A th \in 0..MAX_SEEDERS : ~(seeders > th)
            /\ (i = k /\ pc \in { "l23", "l24", "l25" }) => ~has_peers
            /\ Finished(k) =>
                  /\ StopsOf(k) = << Sent(k, "nop") >>
                  /\ LinesOf(k) = << "[nop] " \o torrents[k].name >>
                  /\ remote[k].status = "stopped"
            /\ (pc = "l11" /\ i = k) => pausedCount = Expected(k - 1) + 1

C6_Witness ==
    /\ pc = "done"
    /\ Len(torrents) = 1
    /\ Seeding(1) /\ Stats(1) = << >>
    /\ stops = << Sent(1, "nop") >>
    /\ out = << HeaderLine, "[nop] torrent1", "Paused 1" >>
    /\ remote[1].status = "stopped"

(* C7: a rejected stop command ends the run at once: it is the last command
   sent, the loop does not move on, nothing is logged for a later torrent,
   no summary line is printed and the exit status is 1; a failure to connect
   or to list ends the run the same way with no stop command at all. *)
C7_AbortOnFailure ==
    /\ \A n \in 1..Len(stops) :
          ~stops[n].ok =>
              /\ n = Len(stops)
              /\ pc = "failed"
              /\ i = stops[n].t
              /\ \A m \in 1..Len(outFor) : outFor[m] <= stops[n].t
              /\ \A k \in (stops[n].t + 1)..Len(torrents) :
                    StopsOf(k) = << >> /\ LinesOf(k) = << >>
    /\ pc = "failed" =>
          /\ exited = << 1 >>
          /\ ~ENABLED Next
          /\ \A m \in 2..Len(out) : outFor[m] /= 0
          /\ \A c \in 0..(2 * MaxTransfers + 2) : out[Len(out)] /= "Paused " \o Dec(c)
          /\ (\A n \in 1..Len(stops) : stops[n].ok) =>
                stops = << >> /\ torrents = << >> /\ out = << HeaderLine >>
    /\ exited = << 0 >> <=> pc = "done"
    /\ exited = << 1 >> <=> pc = "failed"

C7_Witness ==
    /\ pc = "failed"
    /\ exited = << 1 >>
    /\ Len(torrents) = 2
    /\ stops = << [t |-> 1, branch |-> "seeders", ok |-> FALSE] >>
    /\ Seeding(2) /\ Stats(2) = << >>
    /\ out = << HeaderLine, "[006] torrent1" >>
    /\ remote[2].status = "seeding"

(* C8: the process makes its Client once, keeps it from line 8 to the end of
   the sweep, and never ends holding it: the normal exit and every failure
   exit leave it released (or never made, when line 7 itself failed). *)
C8_ConnectionScope ==
    /\ connects <= 1
    /\ pc \in { "l6", "l7" } => conn = "none" /\ connects = 0
    /\ pc \in { "l8", "l9", "l11", "l13", "l17", "l18", "l19", "l21", "l23",
                "l24", "l25", "l27" } => conn = "held" /\ connects = 1
    /\ exited /= << >> => conn /= "held"
    /\ pc = "done" => conn = "released"
    /\ pc = "failed" => conn = (IF connects = 1 THEN "released" ELSE "none")

C8_Witness ==
    /\ pc = "failed"
    /\ conn = "released"
    /\ connects = 1
    /\ \E n \in 1..Len(stops) : ~stops[n].ok /\ stops[n].branch = "nop"

(* C9: a sweep that follows a completed sweep, with the daemon having taken
   the stopped torrents out of "seeding" and the tracker stats as they were,
   sends no stop command, logs no action and prints "Paused 0"; it starts
   with a counter of its own. *)
C9_RerunIdempotent ==
    run > 1 =>
        /\ stops = << >>
        /\ ActionLines = {}
        /\ pausedCount = 0
        /\ \A r \in 1..Len(history) : \A k \in history[r].stopped :
              remote[k].status /= "seeding"
        /\ \A k \in 1..Len(torrents) : Triggers(k) = 0
        /\ pc = "done" => out = << HeaderLine, "Paused 0" >>

C9_Witness ==
    /\ run = 2
    /\ pc = "done"
    /\ history[1].count = 2
    /\ history[1].stopped = { 1 }
    /\ Len(torrents) = 2 /\ Seeding(2) /\ Stats(2) = << TS(3, 2) >>
    /\ out = << HeaderLine, "Paused 0" >>

(* C10 as stated: in every state the counter is the number of stop commands
   that returned successfully, the action lines are as many or one more, and
   a torrent whose stop command failed is logged, not stopped, not counted. *)
C10_Original ==
    /\ pausedCount = Cardinality(OkStops)
    /\ Cardinality(ActionLines) \in { pausedCount, pausedCount + 1 }
    /\ \A n \in 1..Len(stops) :
          ~stops[n].ok =>
              /\ outFor[Len(outFor)] = stops[n].t
              /\ remote[stops[n].t].status = "seeding"
              /\ \A m \in 1..Len(stops) : stops[m].t = stops[n].t => m = n

(* C10 amended: the order within a branch is line, stop command, count, so
   the counter is the number of accepted stop commands less the one whose
   count (line 19 or 25) is still to run, the action lines are as many as the
   counter or one more and as many as the commands sent or one more; when a
   stop command fails its line is already out and the command is not counted,
   and the torrent is still seeding at the daemon unless the seeder branch
   stopped it before. *)
C10_Amended ==
    /\ pausedCount = Cardinality(OkStops) - (IF pc \in { "l19", "l25" } THEN 1 ELSE 0)
    /\ Cardinality(ActionLines) \in { pausedCount, pausedCount + 1 }
    /\ Len(stops) \in { Cardinality(ActionLines), Cardinality(ActionLines) - 1 }
    /\ \A n \in 1..Len(stops) :
          ~stops[n].ok =>
              /\ outFor[Len(outFor)] = stops[n].t
              /\ Cardinality(ActionLines) = pausedCount + 1
              /\ pausedCount = Cardinality(OkStops)
              /\ remote[stops[n].t].status =
                    (IF StopsOf(stops[n].t) = << stops[n] >> THEN "seeding" ELSE "stopped")

C10_Witness ==
    /\ pc = "failed"
    /\ stops = << Sent(1, "seeders"), [t |-> 1, branch |-> "nop", ok |-> FALSE] >>
    /\ out = << HeaderLine, "[010] torrent1", "[nop] torrent1" >>
    /\ pausedCount = 1
    /\ remote[1].status = "stopped"
====
